---- MODULE Spec2Model ----
(***************************************************************************)
(* Readable-URL processor of Open Library                                  *)
(* (openlibrary/core/processors/readableurls.py).                          *)
(*                                                                         *)
(* A string is a sequence of characters.  An ASCII character is the        *)
(* one-letter TLA+ string; a non-ASCII character is written by its code    *)
(* point (U+0412 is CYRILLIC CAPITAL LETTER VE) and counts as one          *)
(* character.  Request paths of the model begin with a single "/", as      *)
(* PATH_INFO does, so urlparse never sees a scheme or a network location.  *)
(***************************************************************************)
EXTENDS Integers, Sequences, FiniteSets, TLC

VARIABLES
    site,           \* the object store: a set of records, one per key
    request,        \* the request as received: path, query, method, encoding
    ctx,            \* web.ctx fields the processor writes
    pc,             \* "start", "redirect", "handler", "response"
    location,       \* argument of the raised web.seeother / web.redirect
    redirect_kind,  \* "none", "language", "user", "readable"
    resolved,       \* the locals of __call__ once the paths are resolved
    out,            \* what the wrapped handler returned
    response,       \* what __call__ returned
    via,            \* the redirect this request followed, and what had been resolved
    visited         \* the requests this client made before, following redirects

vars == <<site, request, ctx, pc, location, redirect_kind, resolved, out, response, via, visited>>

-----------------------------------------------------------------------------
(* Characters *)

Digits == {"0", "1", "2", "3", "4", "5", "6", "7", "8", "9"}

LowerCase == {"a", "b", "c", "d", "e", "f", "g", "h", "i", "j", "k", "l", "m",
              "n", "o", "p", "q", "r", "s", "t", "u", "v", "w", "x", "y", "z"}

UpperCase == {"A", "B", "C", "D", "E", "F", "G", "H", "I", "J", "K", "L", "M",
              "N", "O", "P", "Q", "R", "S", "T", "U", "V", "W", "X", "Y", "Z"}

\* UTF-8 of the non-ASCII letters of the model, as hexadecimal digit pairs.
Utf8 == {<<"U+0412", <<"D", "0", "9", "2">>>>,
         <<"U+0430", <<"D", "0", "B", "0">>>>,
         <<"U+0441", <<"D", "1", "8", "1">>>>,
         <<"U+0438", <<"D", "0", "B", "8">>>>,
         <<"U+043B", <<"D", "0", "B", "B">>>>}

NonAscii == {e[1] : e \in Utf8}

\* ASCII codes of the characters that are neither letters nor digits.
AsciiHex == {<<" ", <<"2", "0">>>>, <<"!", <<"2", "1">>>>, <<"#", <<"2", "3">>>>,
             <<"$", <<"2", "4">>>>, <<"%", <<"2", "5">>>>, <<"&", <<"2", "6">>>>,
             <<"(", <<"2", "8">>>>, <<")", <<"2", "9">>>>,
             <<"*", <<"2", "A">>>>, <<"+", <<"2", "B">>>>, <<",", <<"2", "C">>>>,
             <<"-", <<"2", "D">>>>, <<".", <<"2", "E">>>>, <<"/", <<"2", "F">>>>,
             <<":", <<"3", "A">>>>, <<";", <<"3", "B">>>>, <<"<", <<"3", "C">>>>,
             <<"=", <<"3", "D">>>>, <<">", <<"3", "E">>>>, <<"?", <<"3", "F">>>>,
             <<"@", <<"4", "0">>>>, <<"[", <<"5", "B">>>>, <<"]", <<"5", "D">>>>,
             <<"^", <<"5", "E">>>>, <<"_", <<"5", "F">>>>,
             <<"{", <<"7", "B">>>>, <<"|", <<"7", "C">>>>, <<"}", <<"7", "D">>>>,
             <<"~", <<"7", "E">>>>}

\* \w of a Python 3 str pattern: Unicode letters, digits and the underscore.
IsWord(c) == c \in LowerCase \cup UpperCase \cup Digits \cup {"_"} \cup NonAscii

IsDigit(c) == c \in Digits

\* [a-zA-Z0-9_\.-]
IsIaChar(c) == c \in LowerCase \cup UpperCase \cup Digits \cup {"_", ".", "-"}

\* [/\w\-]
IsListPathChar(c) == IsWord(c) \/ c \in {"/", "-"}

-----------------------------------------------------------------------------
(* String helpers: str methods and the web.py utilities *)

Drop(s, n) == SubSeq(s, n + 1, Len(s))

StartsWith(s, p) == Len(s) >= Len(p) /\ SubSeq(s, 1, Len(p)) = p

EndsWith(s, p) == Len(s) >= Len(p) /\ SubSeq(s, Len(s) - Len(p) + 1, Len(s)) = p

\* str.find: the first index of character c at or after position from, 0 if none
RECURSIVE Find(_, _, _)
Find(s, c, from) ==
    IF from > Len(s) THEN 0
    ELSE IF s[from] = c THEN from
    ELSE Find(s, c, from + 1)

\* the last index of character c at or before position upto, 0 if none
RECURSIVE FindBack(_, _, _)
FindBack(s, c, upto) ==
    IF upto = 0 THEN 0
    ELSE IF s[upto] = c THEN upto
    ELSE FindBack(s, c, upto - 1)

\* str.rfind
RFind(s, c) == FindBack(s, c, Len(s))

\* how many of the first n characters of s are left when the c at their end go
RECURSIVE KeptLen(_, _, _)
KeptLen(s, c, n) ==
    IF n = 0 \/ s[n] # c THEN n ELSE KeptLen(s, c, n - 1)

\* how many c there are at the front of s, counted from position i on
RECURSIVE LeadLen(_, _, _)
LeadLen(s, c, i) ==
    IF i > Len(s) \/ s[i] # c THEN i - 1 ELSE LeadLen(s, c, i + 1)

\* str.rstrip(c)
RStrip(s, c) == SubSeq(s, 1, KeptLen(s, c, Len(s)))

\* str.strip(c): c is the blank for str.strip() and the underscore for strip of underscores
Strip(s, c) == Drop(RStrip(s, c), LeadLen(RStrip(s, c), c, 1))

\* web.lstrips(text, remove)
lstrips(text, remove) == IF StartsWith(text, remove) THEN Drop(text, Len(remove)) ELSE text

\* web.listget(lst, ind, default)
listget(lst, ind, default) == IF ind + 1 <= Len(lst) THEN lst[ind + 1] ELSE default

\* str.split(sep, maxsplit)
RECURSIVE Split(_, _, _)
Split(s, sep, maxsplit) ==
    LET i == Find(s, sep, 1)
    IN  IF maxsplit = 0 \/ i = 0
        THEN <<s>>
        ELSE <<SubSeq(s, 1, i - 1)>> \o Split(Drop(s, i), sep, maxsplit - 1)

\* whether sub occurs in s (the in operator of str)
Contains(s, sub) ==
    \E i \in 0..(Len(s) - Len(sub)) : SubSeq(s, i + 1, i + Len(sub)) = sub

-----------------------------------------------------------------------------
(* Percent-encoding: urllib.parse.quote, quote_plus, and the decoding that  *)
(* the WSGI layer applies to a requested URL before it sets web.ctx.path    *)

\* the characters quote never encodes
Unreserved == LowerCase \cup UpperCase \cup Digits \cup {"_", ".", "-", "~"}

\* %XX of every UTF-8 byte of c
PercentEncode(c) ==
    IF c \in NonAscii
    THEN LET h == (CHOOSE e \in Utf8 : e[1] = c)[2]
         IN  <<"%", h[1], h[2], "%", h[3], h[4]>>
    ELSE LET h == (CHOOSE e \in AsciiHex : e[1] = c)[2]
         IN  <<"%", h[1], h[2]>>

\* urllib.parse.quote(string), whose default safe is the slash
RECURSIVE quote(_)
quote(string) ==
    IF string = <<>> THEN <<>>
    ELSE (IF Head(string) \in Unreserved \cup {"/"}
          THEN <<Head(string)>>
          ELSE PercentEncode(Head(string))) \o quote(Tail(string))

\* urllib.parse.quote_plus(string): nothing is safe, the blank becomes a plus
RECURSIVE quote_plus(_)
quote_plus(string) ==
    IF string = <<>> THEN <<>>
    ELSE (IF Head(string) \in Unreserved THEN <<Head(string)>>
          ELSE IF Head(string) = " " THEN <<"+">>
          ELSE PercentEncode(Head(string))) \o quote_plus(Tail(string))

\* One pass of percent-decoding, UTF-8 bytes joined to their character.
RECURSIVE Unquote(_)
Unquote(s) ==
    IF s = <<>> THEN <<>>
    ELSE IF Head(s) # "%" THEN <<Head(s)>> \o Unquote(Tail(s))
    ELSE LET two == {e \in Utf8 : Len(s) >= 6 /\ SubSeq(s, 1, 6) = PercentEncode(e[1])}
             one == {e \in AsciiHex : Len(s) >= 3 /\ SubSeq(s, 1, 3) = PercentEncode(e[1])}
         IN  IF two # {} THEN <<(CHOOSE e \in two : TRUE)[1]>> \o Unquote(Drop(s, 6))
             ELSE IF one # {} THEN <<(CHOOSE e \in one : TRUE)[1]>> \o Unquote(Drop(s, 3))
             ELSE <<"%">> \o Unquote(Tail(s))

\* urllib.parse.urlparse(url) of a url without scheme and network location:
\* the fragment is cut at the first #, the query at the first ?, and the
\* parameters at the first ; of the last path segment.
urlparse(url) ==
    LET h == Find(url, "#", 1)
        fragment == IF h = 0 THEN <<>> ELSE Drop(url, h)
        u1 == IF h = 0 THEN url ELSE SubSeq(url, 1, h - 1)
        q == Find(u1, "?", 1)
        query == IF q = 0 THEN <<>> ELSE Drop(u1, q)
        u2 == IF q = 0 THEN u1 ELSE SubSeq(u1, 1, q - 1)
        slash == RFind(u2, "/")
        semi == Find(u2, ";", IF slash = 0 THEN 1 ELSE slash)
        params == IF semi = 0 THEN <<>> ELSE Drop(u2, semi)
        path == IF semi = 0 THEN u2 ELSE SubSeq(u2, 1, semi - 1)
    IN  [path |-> path, params |-> params, query |-> query, fragment |-> fragment]

\* ParseResult.geturl()
geturl(result) ==
    result.path
        \o (IF result.params # <<>> THEN <<";">> \o result.params ELSE <<>>)
        \o (IF result.query # <<>> THEN <<"?">> \o result.query ELSE <<>>)
        \o (IF result.fragment # <<>> THEN <<"#">> \o result.fragment ELSE <<>>)

\* encode_url_path(url): every part of the path goes through quote; the parts
\* hold no slash, so that is quote of the whole path with the slash kept.
encode_url_path(url) ==
    LET result == urlparse(url)
    IN  geturl([result EXCEPT !.path = quote(result.path)])

\* The characters h.urlsafe replaces: reserved, delimiters, unwise and space
\* characters of RFC 2396.
UnsafeChars == {";", "/", "?", ":", "@", "&", "=", "+", "$", ",",
                "<", ">", "#", "%", "{", "}", "|", "^", "[", "]", " "}

\* h.urlsafe(path): each run of unsafe characters becomes one underscore, the
\* underscores at both ends are stripped, and 100 characters are kept.
RECURSIVE SubUnsafe(_)
SubUnsafe(s) ==
    IF s = <<>> THEN <<>>
    ELSE IF Head(s) \in UnsafeChars
         THEN IF Len(s) >= 2 /\ s[2] \in UnsafeChars
              THEN SubUnsafe(Tail(s))
              ELSE <<"_">> \o SubUnsafe(Tail(s))
         ELSE <<Head(s)>> \o SubUnsafe(Tail(s))

urlsafe(path) ==
    LET t == Strip(SubUnsafe(path), "_")
    IN  SubSeq(t, 1, IF Len(t) < 100 THEN Len(t) ELSE 100)

-----------------------------------------------------------------------------
(* The object store *)

\* The value of a lookup that finds nothing.  A field a record does not have
\* reads as the empty string: the code treats both alike (x or default).
None == [key |-> <<>>, type |-> "", title |-> <<>>, name |-> <<>>, excluded |-> FALSE]

\* site.get(key)
Get(s, key) == IF \E r \in s : r.key = key THEN CHOOSE r \in s : r.key = key ELSE None

\* thing.get(_property)
Field(thing, property) == IF property = "title" THEN thing.title ELSE thing.name

\* is_exclusion(obj) of booklending_utils: the policy is a flag of the record.
is_exclusion(obj) == obj # None /\ obj.excluded

-----------------------------------------------------------------------------
(* ReadableUrlProcessor.patterns and the match of a pattern *)

\* Each rule: the class of the characters between the first two slashes, the
\* form of the identifier, the record type, the property and the default.
patterns ==
    <<[cls |-> "word", id |-> "M", type |-> "/type/edition", property |-> "title",
       default_title |-> <<"u", "n", "t", "i", "t", "l", "e", "d">>],
      [cls |-> "word", id |-> "ia", type |-> "/type/edition", property |-> "title",
       default_title |-> <<"u", "n", "t", "i", "t", "l", "e", "d">>],
      [cls |-> "word", id |-> "A", type |-> "/type/author", property |-> "name",
       default_title |-> <<"n", "o", "n", "a", "m", "e">>],
      [cls |-> "word", id |-> "W", type |-> "/type/work", property |-> "title",
       default_title |-> <<"u", "n", "t", "i", "t", "l", "e", "d">>],
      [cls |-> "listpath", id |-> "L", type |-> "/type/list", property |-> "name",
       default_title |-> <<"u", "n", "n", "a", "m", "e", "d">>]>>

\* The length of the longest run of characters of s from position i on that
\* satisfy the class (word, digit, ia, listpath).
InClass(cls, c) ==
    CASE cls = "word" -> IsWord(c)
      [] cls = "digit" -> IsDigit(c)
      [] cls = "ia" -> IsIaChar(c)
      [] cls = "listpath" -> IsListPathChar(c)

RECURSIVE RunLen(_, _, _)
RunLen(cls, s, i) ==
    IF i > Len(s) \/ ~InClass(cls, s[i]) THEN 0 ELSE 1 + RunLen(cls, s, i + 1)

\* Where /OL\d+X or /ia:[a-zA-Z0-9_\.-]+ ends when it starts at the slash at
\* position j of s; 0 when it does not match there.
IdEnd(id, s, j) ==
    IF id = "ia"
    THEN IF Len(s) >= j + 3 /\ SubSeq(s, j, j + 3) = <<"/", "i", "a", ":">>
            /\ RunLen("ia", s, j + 4) >= 1
         THEN j + 3 + RunLen("ia", s, j + 4)
         ELSE 0
    ELSE IF Len(s) >= j + 2 /\ SubSeq(s, j, j + 2) = <<"/", "O", "L">>
            /\ RunLen("digit", s, j + 3) >= 1
            /\ Len(s) >= j + 3 + RunLen("digit", s, j + 3)
            /\ s[j + 3 + RunLen("digit", s, j + 3)] = id
         THEN j + 3 + RunLen("digit", s, j + 3)
         ELSE 0

\* the last slash at or before position j of s at which the identifier matches
RECURSIVE LastStart(_, _, _)
LastStart(id, s, j) ==
    IF j < 3 THEN 0
    ELSE IF IdEnd(id, s, j) > 0 THEN j
    ELSE LastStart(id, s, j - 1)

\* web.re_compile('^' + pat).match(path): the length of m.group(), 0 for no
\* match.  The first + is greedy: of the slashes the identifier can start at,
\* the regular expression engine takes the last.
MatchLen(pat, path) ==
    IF Len(path) = 0 \/ path[1] # "/" THEN 0
    ELSE LET start == LastStart(pat.id, path, RunLen(pat.cls, path, 2) + 2)
         IN  IF start = 0 THEN 0 ELSE IdEnd(pat.id, path, start)

\* the first rule from rule i on that path matches, 0 if none does
RECURSIVE FirstRule(_, _)
FirstRule(path, i) ==
    IF i > Len(patterns) THEN 0
    ELSE IF MatchLen(patterns[i], path) > 0 THEN i
    ELSE FirstRule(path, i + 1)

\* The end of match: middle and suffix from the tokens of extra.
MatchResult(i, prefix, tokens) ==
    [rule |-> i, prefix |-> prefix,
     middle |-> listget(tokens, 1, <<>>),
     suffix |-> IF listget(tokens, 2, <<>>) # <<>>
                THEN <<"/">> \o listget(tokens, 2, <<>>)
                ELSE <<>>]

\* prefix = m.group(); extra = web.lstrips(path, prefix); tokens = extra.split("/", 2)
MatchPrefix(i, prefix, path) == MatchResult(i, prefix, Split(lstrips(path, prefix), "/", 2))

\* What match returns when rule i is the first to match; rule 0 stands for
\* the tuple of Nones.
MatchRule(i, path) ==
    IF i = 0
    THEN [rule |-> 0, prefix |-> <<>>, middle |-> <<>>, suffix |-> <<>>]
    ELSE MatchPrefix(i, SubSeq(path, 1, MatchLen(patterns[i], path)), path)

\* match(path) of get_readable_path
match(path) == MatchRule(FirstRule(path, 1), path)

-----------------------------------------------------------------------------
(* _get_object *)

\* One of the three legacy rewrites: if obj is None and key.startswith(old)
LegacyRewrite(s, st, old, new) ==
    IF st.obj = None /\ StartsWith(st.key, old)
    THEN LET key == new \o Drop(st.key, Len(old))
         IN  [key |-> key, obj |-> Get(s, key), lookups |-> Append(st.lookups, key)]
    ELSE st

\* One of the four rewrites of the basename: if obj is None and <test>
BasenameRewrite(s, st, test, new, basename) ==
    IF st.obj = None /\ test
    THEN LET key == new \o basename
         IN  [key |-> key, obj |-> Get(s, key), lookups |-> Append(st.lookups, key)]
    ELSE st

\* _get_object(site, key): the object, with the keys given to site.get in order
get_object(s, key0) ==
    LET s0 == [key |-> key0, obj |-> Get(s, key0), lookups |-> <<key0>>]
        s1 == LegacyRewrite(s, s0, <<"/", "a", "/">>, <<"/", "a", "u", "t", "h", "o", "r", "s", "/">>)
        s2 == LegacyRewrite(s, s1, <<"/", "b", "/">>, <<"/", "b", "o", "o", "k", "s", "/">>)
        s3 == LegacyRewrite(s, s2, <<"/", "u", "s", "e", "r", "/">>,
                            <<"/", "p", "e", "o", "p", "l", "e", "/">>)
        basename == Drop(s3.key, RFind(s3.key, "/"))
        s4 == BasenameRewrite(s, s3, StartsWith(basename, <<"i", "a", ":">>),
                              <<"/", "b", "o", "o", "k", "s", "/">>, basename)
        s5 == BasenameRewrite(s, s4, StartsWith(basename, <<"O", "L">>) /\ EndsWith(basename, <<"W">>),
                              <<"/", "w", "o", "r", "k", "s", "/">>, basename)
        s6 == BasenameRewrite(s, s5, StartsWith(basename, <<"O", "L">>) /\ EndsWith(basename, <<"M">>),
                              <<"/", "b", "o", "o", "k", "s", "/">>, basename)
        s7 == BasenameRewrite(s, s6, StartsWith(basename, <<"O", "L">>) /\ EndsWith(basename, <<"A">>),
                              <<"/", "a", "u", "t", "h", "o", "r", "s", "/">>, basename)
    IN  [key |-> key0, obj |-> s7.obj, lookups |-> s7.lookups]

-----------------------------------------------------------------------------
(* get_readable_path *)

\* os.path.splitext(p): the extension starts at the last dot of the last
\* segment, unless only dots precede it there.
splitext(p) ==
    LET sepIndex == RFind(p, "/")
        dotIndex == RFind(p, ".")
    IN  IF dotIndex > sepIndex
           /\ \E i \in (sepIndex + 1)..(dotIndex - 1) : p[i] # "."
        THEN <<SubSeq(p, 1, dotIndex - 1), Drop(p, dotIndex - 1)>>
        ELSE <<p, <<>>>>

\* path.endswith((".json", ".rdf", ".yml"))
HasDataExtension(path) ==
    \/ EndsWith(path, <<".", "j", "s", "o", "n">>)
    \/ EndsWith(path, <<".", "r", "d", "f">>)
    \/ EndsWith(path, <<".", "y", "m", "l">>)

\* thing.get(_property) or default_title
Title(value, default_title) == IF value # <<>> THEN value ELSE default_title

\* The slug of a record under a rule: quote_plus(h.urlsafe(title.strip()))
Slug(thing, rule) ==
    quote_plus(urlsafe(Strip(Title(Field(thing, patterns[rule].property),
                                   patterns[rule].default_title), " ")))

\* The return for a path no rule matches.
NoMatchResult(path) ==
    [real |-> path, readable |-> path, exclude |-> FALSE, calls |-> <<>>,
     rule |-> 0, suffix |-> <<>>, thing |-> None, branch |-> "nomatch"]

\* The return of the branch for an encoding or a data extension:
\* thing = _get_object(site, key); if thing: path = thing.key + ext
DataResult(path, m, call, ext) ==
    [real |-> IF call.obj # None THEN call.obj.key \o ext ELSE path,
     readable |-> IF call.obj # None THEN call.obj.key \o ext ELSE path,
     exclude |-> FALSE, calls |-> <<call>>,
     rule |-> m.rule, suffix |-> m.suffix, thing |-> call.obj, branch |-> "data"]

\* A mutant of SlugResult: the prefix of the request is kept although a record
\* with another key was found.
SlugResultKeepsPrefix(m, call) ==
    [real |-> m.prefix \o m.suffix,
     readable |-> m.prefix
                    \o (IF call.obj # None /\ call.obj.type = patterns[m.rule].type
                        THEN <<"/">> \o Slug(call.obj, m.rule) ELSE <<>>)
                    \o m.suffix,
     exclude |-> is_exclusion(call.obj), calls |-> <<call>>,
     rule |-> m.rule, suffix |-> m.suffix, thing |-> call.obj, branch |-> "slug"]

\* A mutant of SlugResult: the slug goes into the real path as well.
SlugResultSlugInReal(m, call) ==
    [real |-> (IF call.obj # None THEN call.obj.key ELSE m.prefix)
                    \o (IF call.obj # None /\ call.obj.type = patterns[m.rule].type
                        THEN <<"/">> \o Slug(call.obj, m.rule) ELSE <<>>)
                    \o m.suffix,
     readable |-> (IF call.obj # None THEN call.obj.key ELSE m.prefix)
                    \o (IF call.obj # None /\ call.obj.type = patterns[m.rule].type
                        THEN <<"/">> \o Slug(call.obj, m.rule) ELSE <<>>)
                    \o m.suffix,
     exclude |-> is_exclusion(call.obj), calls |-> <<call>>,
     rule |-> m.rule, suffix |-> m.suffix, thing |-> call.obj, branch |-> "slug"]

\* The last return: thing = _get_object(site, prefix); the prefix becomes
\* thing.key if a thing was found; the middle is the slug if its type is the
\* type of the rule and empty otherwise; web.ctx.exclude is set if
\* is_exclusion(thing); the result is (prefix + suffix, prefix + middle + suffix).
SlugResult(m, call) ==
    [real |-> (IF call.obj # None THEN call.obj.key ELSE m.prefix) \o m.suffix,
     readable |-> (IF call.obj # None THEN call.obj.key ELSE m.prefix)
                    \o (IF call.obj # None /\ call.obj.type = patterns[m.rule].type
                        THEN <<"/">> \o Slug(call.obj, m.rule) ELSE <<>>)
                    \o m.suffix,
     exclude |-> is_exclusion(call.obj), calls |-> <<call>>,
     rule |-> m.rule, suffix |-> m.suffix, thing |-> call.obj, branch |-> "slug"]

\* The body of get_readable_path once match has returned m.
ReadablePathOf(s, path, encoding, m) ==
    IF m.rule = 0 THEN NoMatchResult(path)
    ELSE IF encoding # "None" \/ HasDataExtension(path)
    THEN DataResult(path, m, get_object(s, splitext(path)[1]), splitext(path)[2])
    ELSE SlugResult(m, get_object(s, m.prefix))

\* get_readable_path(site, path, patterns, encoding): real_path, readable_path,
\* whether web.ctx.exclude was set, and the _get_object calls made.  The other
\* fields record the locals at the return statement taken: the rule matched,
\* the suffix, the thing found, and which return it was.
get_readable_path(s, path, encoding) == ReadablePathOf(s, path, encoding, match(path))

-----------------------------------------------------------------------------
(* ReadableUrlProcessor.__call__ *)

LanguagePrefix == <<"/", "l", "/">>

UserPrefix == <<"/", "u", "s", "e", "r", "/">>

\* if web.ctx.path.startswith("/l/")
IsLanguagePath(path) == StartsWith(path, LanguagePrefix)

\* if web.ctx.path.startswith("/user/") and not web.ctx.site.get(web.ctx.path)
IsMissingUserPath(s, path) == StartsWith(path, UserPrefix) /\ Get(s, path) = None

\* A mutant of Decision: the method is not looked at.
DecisionAnyMethod(req, first, second, real_path, readable_path) ==
    [real_path |-> real_path,
     readable_path |-> readable_path,
     redirect |-> /\ readable_path # req.path
                  /\ readable_path # quote(req.path),
     exclude |-> first.exclude \/ second.exclude,
     calls |-> first.calls \o second.calls,
     second |-> second]

\* The redirect decision, with the locals and the side effects of the calls:
\* readable_path != web.ctx.path
\* and readable_path != urllib.parse.quote(web.safestr(web.ctx.path))
\* and web.ctx.method == "GET"
Decision(req, first, second, real_path, readable_path) ==
    [real_path |-> real_path,
     readable_path |-> readable_path,
     redirect |-> /\ readable_path # req.path
                  /\ readable_path # quote(req.path)
                  /\ req.method = "GET",
     exclude |-> first.exclude \/ second.exclude,
     calls |-> first.calls \o second.calls,
     second |-> second]

\* readable_path (its slashes at the end stripped) and real_path go through
\* encode_url_path.
Encoded(req, first, second) ==
    Decision(req, first, second,
             encode_url_path(second.real),
             encode_url_path(RStrip(second.readable, "/")))

\* A mutant of normalized_path: one slash is stripped, not all.
normalized_path_one_slash(path) ==
    IF EndsWith(path, <<"/">>) THEN SubSeq(path, 1, Len(path) - 1) ELSE path

\* normalized_path = web.ctx.path.rstrip('/')
normalized_path(path) == RStrip(path, "/")

\* The two get_readable_path calls, on web.ctx.path and on normalized_path,
\* and what follows them up to the redirect decision.
Resolved(s, req) ==
    Encoded(req,
            get_readable_path(s, req.path, req.encoding),
            get_readable_path(s, normalized_path(req.path), req.encoding))

\* the locals before the two calls
Unresolved ==
    [real_path |-> <<>>, readable_path |-> <<>>, redirect |-> FALSE, exclude |-> FALSE,
     calls |-> <<>>,
     second |-> [real |-> <<>>, readable |-> <<>>, exclude |-> FALSE, calls |-> <<>>,
                 rule |-> 0, suffix |-> <<>>, thing |-> None, branch |-> "none"]]

\* web.ctx at the start of a request
FreshCtx(req) ==
    [path |-> req.path, fullpath |-> req.path \o req.query, readable_path |-> <<>>,
     exclude |-> FALSE, status |-> "200 OK"]

\* raise web.seeother("/languages/" + web.ctx.path[len("/l/"):])
LegacyLanguageRedirect ==
    /\ pc = "start"
    /\ IsLanguagePath(request.path)
    /\ location' = <<"/", "l", "a", "n", "g", "u", "a", "g", "e", "s", "/">>
                      \o Drop(request.path, Len(LanguagePrefix))
    /\ redirect_kind' = "language"
    /\ pc' = "redirect"
    /\ UNCHANGED <<site, request, ctx, resolved, out, response, via, visited>>

\* raise web.seeother("/people/" + web.ctx.path[len("/user/"):])
LegacyUserRedirect ==
    /\ pc = "start"
    /\ ~IsLanguagePath(request.path)
    /\ IsMissingUserPath(site, request.path)
    /\ location' = <<"/", "p", "e", "o", "p", "l", "e", "/">>
                      \o Drop(request.path, Len(UserPrefix))
    /\ redirect_kind' = "user"
    /\ pc' = "redirect"
    /\ UNCHANGED <<site, request, ctx, resolved, out, response, via, visited>>

\* raise web.redirect(readable_path + web.ctx.query)
ReadableRedirect ==
    /\ pc = "start"
    /\ ~IsLanguagePath(request.path)
    /\ ~IsMissingUserPath(site, request.path)
    /\ resolved' = Resolved(site, request)
    /\ resolved'.redirect
    /\ location' = resolved'.readable_path \o request.query
    /\ ctx' = [ctx EXCEPT !.exclude = resolved'.exclude]
    /\ redirect_kind' = "readable"
    /\ pc' = "redirect"
    /\ UNCHANGED <<site, request, out, response, via, visited>>

\* No redirect: web.ctx.readable_path, web.ctx.path and web.ctx.fullpath are
\* set and the handler is about to be called.
Delegate ==
    /\ pc = "start"
    /\ ~IsLanguagePath(request.path)
    /\ ~IsMissingUserPath(site, request.path)
    /\ resolved' = Resolved(site, request)
    /\ ~resolved'.redirect
    /\ ctx' = [ctx EXCEPT !.readable_path = resolved'.readable_path,
                          !.path = resolved'.real_path,
                          !.fullpath = resolved'.real_path \o request.query,
                          !.exclude = resolved'.exclude]
    /\ pc' = "handler"
    /\ UNCHANGED <<site, request, location, redirect_kind, out, response, via, visited>>

\* out = handler(): the wrapped handler returns some page
HandlerOutputs == {"page", "form"}

Handler ==
    /\ pc = "handler"
    /\ out' \in HandlerOutputs
    /\ pc' = "returned"
    /\ UNCHANGED <<site, request, ctx, location, redirect_kind, resolved, response, via, visited>>

\* if web.ctx.get('exclude'): status 404 and render.notfound; else return out
Respond ==
    /\ pc = "returned"
    /\ IF ctx.exclude
       THEN /\ ctx' = [ctx EXCEPT !.status = "404 Not Found"]
            /\ response' = "notfound"
       ELSE /\ response' = out
            /\ UNCHANGED ctx
    /\ pc' = "response"
    /\ UNCHANGED <<site, request, location, redirect_kind, resolved, out, via, visited>>

\* The request a client makes when it follows the redirect: the Location is
\* resolved against the requested path (an empty reference is that path
\* again), its query is cut off and its path is percent-decoded once.
NextRequest(req, loc) ==
    LET parts == urlparse(loc)
        rawpath == geturl([parts EXCEPT !.query = <<>>, !.fragment = <<>>])
    IN  [path |-> IF rawpath = <<>> THEN req.path ELSE Unquote(rawpath),
         query |-> IF parts.query = <<>> THEN <<>> ELSE <<"?">> \o parts.query,
         method |-> "GET",
         encoding |-> req.encoding]

Follow ==
    /\ pc = "redirect"
    /\ request' = NextRequest(request, location)
    /\ visited' = visited \cup {request}
    /\ ctx' = FreshCtx(request')
    /\ pc' = "start"
    /\ location' = <<>>
    /\ via' = [kind |-> redirect_kind, resolved |-> resolved]
    /\ redirect_kind' = "none"
    /\ resolved' = Unresolved
    /\ UNCHANGED <<site, out, response>>

-----------------------------------------------------------------------------
(* The requests and the object stores of the model *)

\* the most slashes appended to a request path
MaxSlashes == 1

\* the most records in the object store
MaxRecords == 1

\* What request paths start with: identifiers in their current and legacy
\* forms, a user page, a language page, and nothing (the root).
Heads ==
    {<<"/", "b", "o", "o", "k", "s", "/", "O", "L", "1", "M">>,
     <<"/", "a", "/", "O", "L", "1", "M">>,
     <<"/", "b", "o", "o", "k", "s", "/", "O", "L", "1", "0", "M">>,
     <<"/", "a", "u", "t", "h", "o", "r", "s", "/", "O", "L", "1", "A">>,
     <<"/", "a", "/", "O", "L", "1", "A">>,
     <<"/", "w", "o", "r", "k", "s", "/", "O", "L", "1", "W">>,
     <<"/", "l", "i", "s", "t", "s", "/", "O", "L", "1", "L">>,
     <<"/", "b", "o", "o", "k", "s", "/", "i", "a", ":", "x">>,
     <<"/", "u", "s", "e", "r", "/", "x">>,
     <<"/", "l", "/", "e", "n">>,
     <<>>}

\* What follows: nothing, one segment, two segments, an extension, a segment
\* with an extension.
Tails ==
    {<<>>,
     <<"/", "e", "d", "i", "t">>,
     <<"/", "x", "/", "t", "i", "t", "l", "e">>,
     <<".", "j", "s", "o", "n">>,
     <<"/", "O", "L", "x", "W", ".", "j", "s", "o", "n">>}

RECURSIVE Slashes(_)
Slashes(n) == IF n = 0 THEN <<>> ELSE <<"/">> \o Slashes(n - 1)

\* The request paths: not empty, and with a single slash in front.
Paths ==
    {p \in {h \o t \o Slashes(n) : h \in Heads, t \in Tails, n \in 0..MaxSlashes} :
        /\ p # <<>>
        /\ p[1] = "/"
        /\ ~StartsWith(p, <<"/", "/">>)}

Queries == {<<>>, <<"?", "m", "o", "d", "e", "=", "a", "d", "d", "-", "w", "o", "r", "k">>}

Methods == {"GET", "POST"}

Encodings == {"None", "json"}

\* An edition, an edition with a Cyrillic title, an excluded author without a
\* name, a work that is a redirect, a list whose name looks like a list
\* identifier, and a scanned edition whose title has no safe character.
Records ==
    {[key |-> <<"/", "b", "o", "o", "k", "s", "/", "O", "L", "1", "M">>, type |-> "/type/edition",
      title |-> <<"t", "i", "t", "l", "e">>, name |-> <<>>, excluded |-> FALSE],
     [key |-> <<"/", "b", "o", "o", "k", "s", "/", "O", "L", "1", "0", "M">>, type |-> "/type/edition",
      title |-> <<"U+0412", "U+0430", "U+0441", " ", "U+0438", "U+043B">>, name |-> <<>>, excluded |-> FALSE],
     [key |-> <<"/", "a", "u", "t", "h", "o", "r", "s", "/", "O", "L", "1", "A">>, type |-> "/type/author",
      title |-> <<>>, name |-> <<>>, excluded |-> TRUE],
     [key |-> <<"/", "w", "o", "r", "k", "s", "/", "O", "L", "1", "W">>, type |-> "/type/redirect",
      title |-> <<"w">>, name |-> <<>>, excluded |-> FALSE],
     [key |-> <<"/", "l", "i", "s", "t", "s", "/", "O", "L", "1", "L">>, type |-> "/type/list",
      title |-> <<>>, name |-> <<"O", "L", "2", "L", "x">>, excluded |-> FALSE],
     [key |-> <<"/", "b", "o", "o", "k", "s", "/", "i", "a", ":", "x">>, type |-> "/type/edition",
      title |-> <<" ", "?">>, name |-> <<>>, excluded |-> FALSE]}

\* The stores: at most MaxRecords records, no two under one key.
Sites ==
    {s \in SUBSET Records :
        /\ Cardinality(s) <= MaxRecords
        /\ \A r1, r2 \in s : r1.key = r2.key => r1 = r2}

Init ==
    /\ site \in Sites
    /\ request \in [path : Paths, query : Queries, method : Methods, encoding : Encodings]
    /\ ctx = FreshCtx(request)
    /\ pc = "start"
    /\ location = <<>>
    /\ redirect_kind = "none"
    /\ resolved = Unresolved
    /\ out = "none"
    /\ response = "none"
    /\ via = [kind |-> "none", resolved |-> Unresolved]
    /\ visited = {}

Next ==
    \/ LegacyLanguageRedirect
    \/ LegacyUserRedirect
    \/ ReadableRedirect
    \/ Delegate
    \/ Handler
    \/ Respond
    \/ Follow

Spec == Init /\ [][Next]_vars

-----------------------------------------------------------------------------
(* Properties *)

\* the paths are resolved and the decision has just been taken
JustResolved == pc \in {"redirect", "handler"} /\ resolved # Unresolved

\* the second get_readable_path call found a record of the type of its rule
FoundOfRuleType(r) ==
    /\ r.rule # 0
    /\ r.thing # None
    /\ r.thing.type = patterns[r.rule].type

\* C1: resolving the readable path returned for a path that matches a rule
\* returns that readable path again, whether the record is found with the
\* type of the rule, found with another type, or not found.
C1_ResolutionIsIdempotent ==
    (JustResolved /\ resolved.second.rule # 0)
        => get_readable_path(site, resolved.second.readable, request.encoding).readable
               = resolved.second.readable

\* C2: a GET of <identifier path>/edit whose record is found with the type of
\* the rule is redirected to <record key>/<slug>/edit followed by the query
\* string, the slug percent-encoded once.
C2_SlugInsertedBeforeRest ==
    (/\ JustResolved
     /\ request.method = "GET"
     /\ resolved.second.branch = "slug"
     /\ FoundOfRuleType(resolved.second)
     /\ match(request.path).middle = <<"e", "d", "i", "t">>
     /\ match(request.path).suffix = <<>>)
        => /\ pc = "redirect"
           /\ location = resolved.second.thing.key
                           \o <<"/">> \o Slug(resolved.second.thing, resolved.second.rule)
                           \o <<"/", "e", "d", "i", "t">> \o request.query

\* C3: a GET made to the readable path the processor redirected to, for a
\* record found with the type of the rule, is not redirected again.
C3_ReadablePathNotRedirected ==
    (/\ via.kind = "readable"
     /\ via.resolved.second.branch = "slug"
     /\ FoundOfRuleType(via.resolved.second))
        => pc # "redirect"

\* C4 as stated: every request whose method is not GET is handed to the
\* wrapped handler, with realPath as web.ctx.path and readablePath as
\* web.ctx.readable_path, and is never redirected.
C4_NonGetAlwaysDelegated ==
    (request.method # "GET" /\ pc # "start")
        => /\ pc \in {"handler", "returned", "response"}
           /\ redirect_kind = "none"
           /\ ctx.path = resolved.real_path
           /\ ctx.readable_path = resolved.readable_path

\* C4 amended: a request whose method is not GET never gets the readable-path
\* redirect; unless the legacy /l/ or /user/ redirect takes it first, the
\* encoded real path of the normalized request path becomes web.ctx.path, the
\* encoded readable path becomes web.ctx.readable_path, web.ctx.fullpath is
\* the real path with the query, and the wrapped handler is called.
C4_NonGetNeverReadableRedirect ==
    (request.method # "GET" /\ pc # "start")
        => /\ redirect_kind # "readable"
           /\ IF IsLanguagePath(request.path) \/ IsMissingUserPath(site, request.path)
              THEN pc = "redirect" /\ redirect_kind \in {"language", "user"}
              ELSE /\ pc \in {"handler", "returned", "response"}
                   /\ ctx.path = encode_url_path(resolved.second.real)
                   /\ ctx.readable_path
                        = encode_url_path(RStrip(resolved.second.readable, "/"))
                   /\ ctx.fullpath = ctx.path \o request.query
                   /\ resolved.second.real
                        = get_readable_path(site, RStrip(request.path, "/"),
                                            request.encoding).real

\* C4 witness: a POST whose readable path differs from the request path has
\* reached the handler.
C4_Witness ==
    /\ request.method = "POST"
    /\ pc = "handler"
    /\ resolved.readable_path # request.path
    /\ resolved.readable_path # quote(request.path)
    /\ ctx.path = resolved.real_path
    /\ resolved.second.branch = "slug"
    /\ FoundOfRuleType(resolved.second)

\* C5: the real and readable paths derived for a request path are those
\* derived for the same path with one or more slashes appended.
C5_TrailingSlashesResolveAlike ==
    JustResolved
        => \A n \in 1..(MaxSlashes + 1) :
              /\ Resolved(site, [request EXCEPT !.path = @ \o Slashes(n)]).real_path
                   = resolved.real_path
              /\ Resolved(site, [request EXCEPT !.path = @ \o Slashes(n)]).readable_path
                   = resolved.readable_path
              /\ Resolved(site, [request EXCEPT !.path = @ \o Slashes(n)]).second.real
                   = resolved.second.real
              /\ Resolved(site, [request EXCEPT !.path = @ \o Slashes(n)]).second.readable
                   = resolved.second.readable

\* C5 witness: a request path that ends with a slash, whose record is found
\* with the type of its rule, has been resolved to a readable path with a slug.
C5_Witness ==
    /\ JustResolved
    /\ EndsWith(request.path, <<"/">>)
    /\ resolved.second.branch = "slug"
    /\ FoundOfRuleType(resolved.second)
    /\ Slug(resolved.second.thing, resolved.second.rule) # <<>>
    /\ resolved.second.readable # resolved.second.real

\* C6 as stated: when the path matched a rule and a record of the type of the
\* rule was found, the real path does not contain the slug and the readable
\* path contains it.
C6_SlugOnlyInReadable ==
    (JustResolved /\ FoundOfRuleType(resolved.second))
        => /\ ~Contains(resolved.second.real,
                        Slug(resolved.second.thing, resolved.second.rule))
           /\ Contains(resolved.second.readable,
                       Slug(resolved.second.thing, resolved.second.rule))

\* C6 amended: without an encoding and without a data extension, when the path
\* matched a rule and a record of the type of the rule was found, the readable
\* path is the record key, a slash and the slug, then the suffix, and the real
\* path is the record key and the suffix: the readable path is the real path
\* with the slug segment put in after the key.  Every other result has the
\* real path and the readable path equal, and with an encoding or a data
\* extension they are the key of the record found and the extension.
C6_SlugSegmentAfterKey ==
    JustResolved
        => IF resolved.second.branch = "slug" /\ FoundOfRuleType(resolved.second)
           THEN /\ StartsWith(resolved.second.real, resolved.second.thing.key)
                /\ StartsWith(resolved.second.readable,
                              resolved.second.thing.key \o <<"/">>
                                 \o Slug(resolved.second.thing, resolved.second.rule))
                /\ Drop(resolved.second.readable,
                        Len(resolved.second.thing.key) + 1
                           + Len(Slug(resolved.second.thing, resolved.second.rule)))
                     = Drop(resolved.second.real, Len(resolved.second.thing.key))
                /\ Drop(resolved.second.real, Len(resolved.second.thing.key))
                     = match(RStrip(request.path, "/")).suffix
           ELSE /\ resolved.second.real = resolved.second.readable
                /\ (resolved.second.branch = "data" /\ resolved.second.thing # None)
                      => resolved.second.real
                           = resolved.second.thing.key
                               \o splitext(RStrip(request.path, "/"))[2]

\* C6 witness: a record of the type of the rule was found and the real path
\* holds the text of the slug, which came with the suffix of the request.
C6_Witness ==
    /\ JustResolved
    /\ resolved.second.branch = "slug"
    /\ FoundOfRuleType(resolved.second)
    /\ Slug(resolved.second.thing, resolved.second.rule) # <<>>
    /\ Contains(resolved.second.suffix, Slug(resolved.second.thing, resolved.second.rule))
    /\ resolved.second.readable # resolved.second.real

\* The request path with head h in place of the prefix its rule matched.
WithHead(h, path) == h \o Drop(path, Len(match(path).prefix))

\* Path q starts with identifier h, which the fallback lookup resolves to the
\* record the prefix of path resolves to, and has the suffix of path.
SameRecordAndSuffix(h, q, path) ==
    /\ match(q).rule # 0
    /\ match(q).prefix = h
    /\ match(q).suffix = match(path).suffix
    /\ get_object(site, h).obj # None
    /\ get_object(site, h).obj = get_object(site, match(path).prefix).obj

\* C7 as stated: two paths whose identifier prefixes resolve to one record and
\* that have one suffix get one real path, which begins with the key of the
\* record.
C7_LegacyPrefixEquivalence ==
    (JustResolved /\ resolved.second.rule # 0)
        => \A h \in Heads :
              SameRecordAndSuffix(h, WithHead(h, RStrip(request.path, "/")),
                                  RStrip(request.path, "/"))
                 => /\ get_readable_path(site, WithHead(h, RStrip(request.path, "/")),
                                         request.encoding).real
                         = resolved.second.real
                    /\ StartsWith(resolved.second.real,
                                  get_object(site, h).obj.key)

\* C7 amended: the same, for paths without a data extension resolved without
\* an encoding.
C7_LegacyPrefixEquivalenceOfSlugPaths ==
    (JustResolved /\ resolved.second.branch = "slug")
        => \A h \in Heads :
              (/\ SameRecordAndSuffix(h, WithHead(h, RStrip(request.path, "/")),
                                      RStrip(request.path, "/"))
               /\ ~HasDataExtension(WithHead(h, RStrip(request.path, "/"))))
                 => /\ get_readable_path(site, WithHead(h, RStrip(request.path, "/")),
                                         request.encoding).real
                         = resolved.second.real
                    /\ StartsWith(resolved.second.real,
                                  get_object(site, h).obj.key)

\* C7 witness: a path under the legacy prefix /a/ has been resolved to a real
\* path under the key of the author record, as the path under /authors/ is.
C7_Witness ==
    /\ JustResolved
    /\ resolved.second.branch = "slug"
    /\ StartsWith(request.path, <<"/", "a", "/", "O", "L", "1", "A">>)
    /\ resolved.second.thing # None
    /\ StartsWith(resolved.second.real, <<"/", "a", "u", "t", "h", "o", "r", "s", "/">>)
    /\ SameRecordAndSuffix(<<"/", "a", "u", "t", "h", "o", "r", "s", "/", "O", "L", "1", "A">>,
                           WithHead(<<"/", "a", "u", "t", "h", "o", "r", "s", "/", "O", "L", "1", "A">>,
                                    RStrip(request.path, "/")),
                           RStrip(request.path, "/"))

\* Whether basename is OL, digits, and the letter.
IsOlid(basename, letter) ==
    /\ Len(basename) >= 4
    /\ SubSeq(basename, 1, 2) = <<"O", "L">>
    /\ RunLen("digit", basename, 3) = Len(basename) - 3
    /\ basename[Len(basename)] = letter

\* The candidate keys in the order C8 gives them.
Candidates(key) ==
    <<key>>
      \o (IF StartsWith(key, <<"/", "a", "/">>)
          THEN <<<<"/", "a", "u", "t", "h", "o", "r", "s", "/">> \o Drop(key, 3)>>
          ELSE IF StartsWith(key, <<"/", "b", "/">>)
          THEN <<<<"/", "b", "o", "o", "k", "s", "/">> \o Drop(key, 3)>>
          ELSE IF StartsWith(key, UserPrefix)
          THEN <<<<"/", "p", "e", "o", "p", "l", "e", "/">> \o Drop(key, 6)>>
          ELSE <<>>)
      \o (IF StartsWith(Drop(key, RFind(key, "/")), <<"i", "a", ":">>)
          THEN <<<<"/", "b", "o", "o", "k", "s", "/">> \o Drop(key, RFind(key, "/"))>>
          ELSE <<>>)
      \o (IF IsOlid(Drop(key, RFind(key, "/")), "W")
          THEN <<<<"/", "w", "o", "r", "k", "s", "/">> \o Drop(key, RFind(key, "/"))>>
          ELSE <<>>)
      \o (IF IsOlid(Drop(key, RFind(key, "/")), "M")
          THEN <<<<"/", "b", "o", "o", "k", "s", "/">> \o Drop(key, RFind(key, "/"))>>
          ELSE <<>>)
      \o (IF IsOlid(Drop(key, RFind(key, "/")), "A")
          THEN <<<<"/", "a", "u", "t", "h", "o", "r", "s", "/">> \o Drop(key, RFind(key, "/"))>>
          ELSE <<>>)

\* The candidates up to the first that the store holds, all of them if none.
RECURSIVE UpToFirstFound(_, _)
UpToFirstFound(s, keys) ==
    IF keys = <<>> THEN <<>>
    ELSE IF Get(s, Head(keys)) # None THEN <<Head(keys)>>
    ELSE <<Head(keys)>> \o UpToFirstFound(s, Tail(keys))

\* C8: _get_object looks up the candidates of its key in order, stops at the
\* first that is found and returns it, looks up no other key, and returns
\* nothing when no candidate is found.
C8_FallbackOrder ==
    \A i \in 1..Len(resolved.calls) :
        /\ resolved.calls[i].lookups
             = UpToFirstFound(site, Candidates(resolved.calls[i].key))
        /\ resolved.calls[i].obj
             = Get(site, resolved.calls[i].lookups[Len(resolved.calls[i].lookups)])

\* C9: a request that reaches the wrapped handler, whose path matches a rule
\* and resolves to a record the exclusion policy flags, is answered with the
\* not-found page.
C9_ExcludedNeverServed ==
    (/\ pc = "response"
     /\ resolved.second.rule # 0
     /\ is_exclusion(resolved.second.thing))
        => response = "notfound" /\ ctx.status = "404 Not Found"

\* C10: no request is redirected to itself or to a request its client made
\* before, so a client that follows the redirects is served in the end.
C10_NoRedirectCycle ==
    pc = "redirect"
        => \A v \in visited \cup {request} :
              \/ v.path # NextRequest(request, location).path
              \/ v.query # NextRequest(request, location).query

====
